---- MODULE Spec2Model ----
(***************************************************************************)
(* State-aware alert marker: a decorator (StateAwareMarker) around the     *)
(* in-memory marker (MemMarker) that appends one event to a StateAppender  *)
(* for every observed alert state transition, and the DuckDB-backed        *)
(* StateAppender that turns each event into a row of alert_states.         *)
(***************************************************************************)
EXTENDS Integers, Sequences, FiniteSets, TLC

(***************************************************************************)
(* Bounds and input sets                                                   *)
(***************************************************************************)

\* Largest number of events the sink receives in one behaviour of Spec
\* (one alert) and of SpecMulti (several alerts).
MaxLog == 4
MaxLogMulti == 2

\* Fingerprints of the alerts that are marked.
Fingerprints == {"a1", "a2"}

\* Inhibitor lists passed to SetInhibited (fingerprint strings of inhibiting
\* alerts): empty, one inhibitor, two inhibitors with a shared first element.
InhibitorLists == {<<>>, <<"a2">>, <<"a3">>, <<"a2", "a3">>}

\* Active and pending silence ID lists passed to SetActiveOrSilenced.
ActiveSilenceLists == {<<>>, <<"s1">>}
PendingSilenceLists == {<<>>, <<"p1">>}

\* Silence versions passed to SetActiveOrSilenced.
Versions == {1}

(***************************************************************************)
(* AlertState and the persisted enumerations                               *)
(***************************************************************************)

AlertStateUnprocessed == "unprocessed"
AlertStateActive == "active"
AlertStateSuppressed == "suppressed"
AlertStateDeleted == "deleted"

\* SQL NULL in a nullable column of alert_states.
Null == "null"

(***************************************************************************)
(* MemMarker: the status authority behind the decorator                    *)
(***************************************************************************)

\* The AlertStatus that Status reports for a fingerprint without an entry.
UnprocessedStatus ==
    [State |-> AlertStateUnprocessed, SilencedBy |-> <<>>, InhibitedBy |-> <<>>,
     pendingSilences |-> <<>>, silencesVersion |-> 0]

\* Store status s under fingerprint alert in the alerts map m.
PutStatus(m, alert, s) ==
    [f \in (DOMAIN m) \cup {alert} |-> IF f = alert THEN s ELSE m[f]]

MemMarker_Status(m, alert) ==
    IF alert \in DOMAIN m THEN m[alert] ELSE UnprocessedStatus

MemMarker_SetActiveOrSilenced(m, alert, version, activeIDs, pendingIDs) ==
    LET s0 == IF alert \in DOMAIN m THEN m[alert] ELSE UnprocessedStatus
        s1 == [s0 EXCEPT !.SilencedBy = activeIDs,
                         !.pendingSilences = pendingIDs,
                         !.silencesVersion = version]
        s2 == [s1 EXCEPT !.State =
                  IF Len(activeIDs) = 0 /\ Len(s1.InhibitedBy) = 0
                  THEN AlertStateActive ELSE AlertStateSuppressed]
    IN  PutStatus(m, alert, s2)

MemMarker_SetInhibited(m, alert, ids) ==
    LET s0 == IF alert \in DOMAIN m THEN m[alert] ELSE UnprocessedStatus
        s1 == [s0 EXCEPT !.InhibitedBy = ids]
        s2 == [s1 EXCEPT !.State =
                  IF Len(ids) = 0 /\ Len(s1.SilencedBy) = 0
                  THEN AlertStateActive ELSE AlertStateSuppressed]
    IN  PutStatus(m, alert, s2)

MemMarker_Delete(m, alert) ==
    [f \in (DOMAIN m) \ {alert} |-> m[f]]

MemMarker_Silenced(m, alert) ==
    LET s == MemMarker_Status(m, alert)
    IN  [activeIDs |-> s.SilencedBy, pendingIDs |-> s.pendingSilences,
         version |-> s.silencesVersion,
         silenced |-> (s.State = AlertStateSuppressed /\ Len(s.SilencedBy) > 0)]

MemMarker_Inhibited(m, alert) ==
    LET s == MemMarker_Status(m, alert)
    IN  [by |-> s.InhibitedBy,
         inhibited |-> (s.State = AlertStateSuppressed /\ Len(s.InhibitedBy) > 0)]

\* Count(states...): with no states every entry counts; otherwise an entry
\* counts once for every listed state it is in.
MemMarker_Count(m, states) ==
    IF Len(states) = 0
    THEN Cardinality(DOMAIN m)
    ELSE Cardinality({p \in (DOMAIN m) \X (1..Len(states)) :
                        m[p[1]].State = states[p[2]]})

MemMarker_Unprocessed(m, alert) ==
    MemMarker_Status(m, alert).State = AlertStateUnprocessed

MemMarker_Active(m, alert) ==
    MemMarker_Status(m, alert).State = AlertStateActive

\* The mute entries: a map g from (routeID, groupKey) to the names of the
\* time intervals muting the group.
GroupKeyOf(routeID, groupKey) == <<routeID, groupKey>>

MemMarker_Muted(g, routeID, groupKey) ==
    IF GroupKeyOf(routeID, groupKey) \in DOMAIN g
    THEN [names |-> g[GroupKeyOf(routeID, groupKey)],
          muted |-> Len(g[GroupKeyOf(routeID, groupKey)]) > 0]
    ELSE [names |-> <<>>, muted |-> FALSE]

MemMarker_SetMuted(g, routeID, groupKey, timeIntervalNames) ==
    [k \in (DOMAIN g) \cup {GroupKeyOf(routeID, groupKey)} |->
        IF k = GroupKeyOf(routeID, groupKey) THEN timeIntervalNames ELSE g[k]]

MemMarker_DeleteByGroupKey(g, routeID, groupKey) ==
    [k \in (DOMAIN g) \ {GroupKeyOf(routeID, groupKey)} |-> g[k]]

(***************************************************************************)
(* StateAppender calls and the DuckDB-backed appender                      *)
(***************************************************************************)

\* A call of StateAppender.Append / StateAppender.AppendInhibited.
AppendCall(fingerprint, state) ==
    [op |-> "Append", fingerprint |-> fingerprint, state |-> state,
     inhibitedBy |-> <<>>]

AppendInhibitedCall(fingerprint, inhibitedBy) ==
    [op |-> "AppendInhibited", fingerprint |-> fingerprint,
     state |-> AlertStateSuppressed, inhibitedBy |-> inhibitedBy]

\* A row of alert_states; rows are kept in id order (UUIDv7 ids, one per
\* append, created in call order).
Row(alert, state, suppressed_by, suppressed_reason) ==
    [alert |-> alert, state |-> state, suppressed_by |-> suppressed_by,
     suppressed_reason |-> suppressed_reason]

\* DuckDBStateAppender.Append; ok is whether AppendRow succeeds.
DuckDBStateAppender_Append(table, fingerprint, state, ok) ==
    IF ~ok THEN table
    ELSE IF state = AlertStateSuppressed
         THEN Append(table, Row(fingerprint, state, Null, "silenced"))
         ELSE Append(table, Row(fingerprint, state, Null, Null))

\* Variant of DuckDBStateAppender_AppendInhibited that stores the last
\* inhibitor instead of the first.
DuckDBStateAppender_AppendInhibited_Last(table, fingerprint, inhibitedBy, ok) ==
    IF ~ok THEN table
    ELSE Append(table, Row(fingerprint, AlertStateSuppressed,
                           inhibitedBy[Len(inhibitedBy)], "inhibited"))

\* DuckDBStateAppender.AppendInhibited; inhibitedBy[0] of the code is
\* inhibitedBy[1] here (sequences are 1-based).  With an empty list the index
\* expression panics before AppendRow is called.
DuckDBStateAppender_AppendInhibited(table, fingerprint, inhibitedBy, ok) ==
    IF ~ok \/ inhibitedBy = <<>> THEN table
    ELSE Append(table, Row(fingerprint, AlertStateSuppressed,
                           inhibitedBy[1], "inhibited"))

\* What can go wrong inside one call of the appender: nothing, the
\* generation of the row id (uuid.NewV7), its encoding (MarshalBinary), or
\* the write (AppendRow).
SinkFaults == {"none", "NewV7", "MarshalBinary", "AppendRow"}

\* Append besides the row: uuid.Must panics when NewV7 fails, before the
\* deferred logger is installed; the deferred logger reports every other error.
DuckDBStateAppender_Append_effect(fault) ==
    [panics |-> fault = "NewV7",
     logs |-> fault \in {"MarshalBinary", "AppendRow"}]

\* AppendInhibited besides the row: uuid.Must panics when NewV7 fails; a
\* failed MarshalBinary returns at once; inhibitedBy[0] panics on an empty
\* list; a failed AppendRow is logged.
DuckDBStateAppender_AppendInhibited_effect(inhibitedBy, fault) ==
    [panics |-> \/ fault = "NewV7"
                \/ fault \in {"none", "AppendRow"} /\ inhibitedBy = <<>>,
     logs |-> fault = "AppendRow" /\ inhibitedBy # <<>>]

SinkEffect(c, fault) ==
    IF c.op = "Append"
    THEN DuckDBStateAppender_Append_effect(fault)
    ELSE DuckDBStateAppender_AppendInhibited_effect(c.inhibitedBy, fault)

\* Error values: the chain of messages of an error, outermost first; nil is
\* the empty chain.
NilError == <<>>

\* fmt.Errorf(msg + ": %w", err).
Errorf(msg, err) == <<msg>> \o err

\* The errors duckdb.Appender.Flush and duckdb.Appender.Close may return.
DbErrors == {NilError, <<"duckdb appender error">>}

\* DuckDBStateAppender.Close, err being what d.db.Close() returned.
DuckDBStateAppender_Close(err) == err

\* DuckDBStateAppender.Flush, err being what d.db.Flush() returned.
DuckDBStateAppender_Flush(err) ==
    IF err # NilError
    THEN Errorf("failed to flush duckdb state appender", err)
    ELSE NilError

\* Dispatch one StateAppender call to the DuckDB appender.
SinkApply(table, c, ok) ==
    IF c.op = "Append"
    THEN DuckDBStateAppender_Append(table, c.fingerprint, c.state, ok)
    ELSE DuckDBStateAppender_AppendInhibited(table, c.fingerprint, c.inhibitedBy, ok)

\* Dispatch the calls of one decorator operation, in order.
RECURSIVE SinkApplyAll(_, _, _)
SinkApplyAll(table, calls, ok) ==
    IF calls = <<>> THEN table
    ELSE SinkApplyAll(SinkApply(table, Head(calls), ok), Tail(calls), ok)

(***************************************************************************)
(* StateAwareMarker: the decisions taken after the mutation was delegated  *)
(***************************************************************************)

\* Variants of SetActiveOrSilenced_appends, each with one check changed.
\* Without the "already active" return.
SetActiveOrSilenced_appends_NoActiveCheck(alert, currStatus, isSilenced) ==
    IF isSilenced
    THEN IF currStatus.State # AlertStateSuppressed
         THEN <<AppendCall(alert, AlertStateSuppressed)>>
         ELSE <<>>
    ELSE IF currStatus.State = AlertStateSuppressed /\ Len(currStatus.InhibitedBy) > 0
         THEN <<>>
    ELSE <<AppendCall(alert, AlertStateActive)>>

\* Without the "already suppressed" check of the silenced branch.
SetActiveOrSilenced_appends_NoSuppressedCheck(alert, currStatus, isSilenced) ==
    IF isSilenced
    THEN <<AppendCall(alert, AlertStateSuppressed)>>
    ELSE IF currStatus.State = AlertStateSuppressed /\ Len(currStatus.InhibitedBy) > 0
         THEN <<>>
    ELSE IF currStatus.State = AlertStateActive
         THEN <<>>
    ELSE <<AppendCall(alert, AlertStateActive)>>

\* Without the "still inhibited" return.
SetActiveOrSilenced_appends_NoInhibitedCheck(alert, currStatus, isSilenced) ==
    IF isSilenced
    THEN IF currStatus.State # AlertStateSuppressed
         THEN <<AppendCall(alert, AlertStateSuppressed)>>
         ELSE <<>>
    ELSE IF currStatus.State = AlertStateActive
         THEN <<>>
    ELSE <<AppendCall(alert, AlertStateActive)>>

\* Returning for every suppressed alert, inhibited or not.
SetActiveOrSilenced_appends_AnySuppressed(alert, currStatus, isSilenced) ==
    IF isSilenced
    THEN IF currStatus.State # AlertStateSuppressed
         THEN <<AppendCall(alert, AlertStateSuppressed)>>
         ELSE <<>>
    ELSE IF currStatus.State = AlertStateSuppressed
         THEN <<>>
    ELSE IF currStatus.State = AlertStateActive
         THEN <<>>
    ELSE <<AppendCall(alert, AlertStateActive)>>

\* SetActiveOrSilenced after the delegation: the StateAppender calls made,
\* given the status snapshot taken before it and whether the marker now
\* reports the alert as silenced.
SetActiveOrSilenced_appends(alert, currStatus, isSilenced) ==
    IF isSilenced
    THEN IF currStatus.State # AlertStateSuppressed
         THEN <<AppendCall(alert, AlertStateSuppressed)>>
         ELSE <<>>
    ELSE IF currStatus.State = AlertStateSuppressed /\ Len(currStatus.InhibitedBy) > 0
         THEN <<>>
    ELSE IF currStatus.State = AlertStateActive
         THEN <<>>
    ELSE <<AppendCall(alert, AlertStateActive)>>

\* Variants of SetInhibited_appends, each with one check changed.
\* Without the comparison of the inhibitor lists.
SetInhibited_appends_NoListCheck(alert, currStatus, alertIDs, by, isInhibited) ==
    IF isInhibited
    THEN <<AppendInhibitedCall(alert, by)>>
    ELSE IF currStatus.State = AlertStateSuppressed \/ currStatus.State = AlertStateActive
         THEN <<>>
    ELSE <<AppendCall(alert, AlertStateActive)>>

\* Appending only when the state was not suppressed before.
SetInhibited_appends_StateOnly(alert, currStatus, alertIDs, by, isInhibited) ==
    IF isInhibited
    THEN IF currStatus.State # AlertStateSuppressed
         THEN <<AppendInhibitedCall(alert, by)>>
         ELSE <<>>
    ELSE IF currStatus.State = AlertStateSuppressed \/ currStatus.State = AlertStateActive
         THEN <<>>
    ELSE <<AppendCall(alert, AlertStateActive)>>

\* Without the "suppressed" half of the not-inhibited return.
SetInhibited_appends_ActiveOnly(alert, currStatus, alertIDs, by, isInhibited) ==
    IF isInhibited
    THEN IF currStatus.State # AlertStateSuppressed
         THEN <<AppendInhibitedCall(alert, by)>>
         ELSE IF currStatus.InhibitedBy # alertIDs
              THEN <<AppendInhibitedCall(alert, by)>>
              ELSE <<>>
    ELSE IF currStatus.State = AlertStateActive
         THEN <<>>
    ELSE <<AppendCall(alert, AlertStateActive)>>

\* Appending the inhibitor list read before the mutation.
SetInhibited_appends_OldList(alert, currStatus, alertIDs, by, isInhibited) ==
    IF isInhibited
    THEN IF currStatus.State # AlertStateSuppressed
         THEN <<AppendInhibitedCall(alert, currStatus.InhibitedBy)>>
         ELSE IF currStatus.InhibitedBy # alertIDs
              THEN <<AppendInhibitedCall(alert, currStatus.InhibitedBy)>>
              ELSE <<>>
    ELSE IF currStatus.State = AlertStateSuppressed \/ currStatus.State = AlertStateActive
         THEN <<>>
    ELSE <<AppendCall(alert, AlertStateActive)>>

\* SetInhibited after the delegation: by and isInhibited are what the marker's
\* Inhibited reports, alertIDs the argument of the call.
SetInhibited_appends(alert, currStatus, alertIDs, by, isInhibited) ==
    IF isInhibited
    THEN IF currStatus.State # AlertStateSuppressed
         THEN <<AppendInhibitedCall(alert, by)>>
         ELSE IF currStatus.InhibitedBy # alertIDs
              THEN <<AppendInhibitedCall(alert, by)>>
              ELSE <<>>
    ELSE IF currStatus.State = AlertStateSuppressed \/ currStatus.State = AlertStateActive
         THEN <<>>
    ELSE <<AppendCall(alert, AlertStateActive)>>

\* Variant of Delete_appends without the "unprocessed" return.
Delete_appends_Always(alert, currStatus) ==
    <<AppendCall(alert, AlertStateDeleted)>>

\* Delete after the delegation.
Delete_appends(alert, currStatus) ==
    IF currStatus.State = AlertStateUnprocessed
    THEN <<>>
    ELSE <<AppendCall(alert, AlertStateDeleted)>>

(***************************************************************************)
(* StateAwareMarker: the mutating operations.  Each yields the marker      *)
(* after the delegated mutation and the StateAppender calls made.          *)
(***************************************************************************)

\* Variant of StateAwareMarker_SetInhibited that reads the status of the
\* first inhibitor, not of the alert, before the mutation.
StateAwareMarker_SetInhibited_StatusOfInhibitor(m, alert, alertIDs) ==
    LET currStatus == MemMarker_Status(m, IF alertIDs = <<>> THEN alert
                                          ELSE Head(alertIDs))
        m2 == MemMarker_SetInhibited(m, alert, alertIDs)
        inh == MemMarker_Inhibited(m2, alert)
    IN  [marker |-> m2,
         calls |-> SetInhibited_appends(alert, currStatus, alertIDs,
                                        inh.by, inh.inhibited)]

\* Variant of StateAwareMarker_Delete that appends without delegating.
StateAwareMarker_Delete_NotDelegated(m, alert) ==
    [marker |-> m, calls |-> Delete_appends(alert, MemMarker_Status(m, alert))]

StateAwareMarker_SetActiveOrSilenced(m, alert, version, activeSilenceIDs, pendingSilenceIDs) ==
    LET currStatus == MemMarker_Status(m, alert)
        m2 == MemMarker_SetActiveOrSilenced(m, alert, version,
                                            activeSilenceIDs, pendingSilenceIDs)
        isSilenced == MemMarker_Silenced(m2, alert).silenced
    IN  [marker |-> m2,
         calls |-> SetActiveOrSilenced_appends(alert, currStatus, isSilenced)]

StateAwareMarker_SetInhibited(m, alert, alertIDs) ==
    LET currStatus == MemMarker_Status(m, alert)
        m2 == MemMarker_SetInhibited(m, alert, alertIDs)
        inh == MemMarker_Inhibited(m2, alert)
    IN  [marker |-> m2,
         calls |-> SetInhibited_appends(alert, currStatus, alertIDs,
                                        inh.by, inh.inhibited)]

StateAwareMarker_Delete(m, alert) ==
    LET currStatus == MemMarker_Status(m, alert)
        m2 == MemMarker_Delete(m, alert)
    IN  [marker |-> m2, calls |-> Delete_appends(alert, currStatus)]

StateAwareMarker_Count(m, states) == MemMarker_Count(m, states)

StateAwareMarker_Status(m, alert) == MemMarker_Status(m, alert)

\* Variant of StateAwareMarker_Active that reports every alert with an entry.
StateAwareMarker_Active_NotUnprocessed(m, alert) ==
    ~MemMarker_Unprocessed(m, alert)

\* Variant of StateAwareMarker_SetMuted with routeID and groupKey exchanged.
StateAwareMarker_SetMuted_Swapped(g, routeID, groupKey, timeIntervalNames) ==
    MemMarker_SetMuted(g, groupKey, routeID, timeIntervalNames)

StateAwareMarker_Unprocessed(m, alert) == MemMarker_Unprocessed(m, alert)

StateAwareMarker_Active(m, alert) == MemMarker_Active(m, alert)

StateAwareMarker_Silenced(m, alert) == MemMarker_Silenced(m, alert)

StateAwareMarker_Inhibited(m, alert) == MemMarker_Inhibited(m, alert)

StateAwareMarker_Muted(g, routeID, groupKey) ==
    MemMarker_Muted(g, routeID, groupKey)

StateAwareMarker_SetMuted(g, routeID, groupKey, timeIntervalNames) ==
    MemMarker_SetMuted(g, routeID, groupKey, timeIntervalNames)

StateAwareMarker_DeleteByGroupKey(g, routeID, groupKey) ==
    MemMarker_DeleteByGroupKey(g, routeID, groupKey)

\* Variant of StateAwareMarker_Flush that drops the error.
StateAwareMarker_Flush_Dropped(err) == NilError

\* StateAwareMarker.Flush, err being what the duckdb appender's Flush met.
StateAwareMarker_Flush(err) == DuckDBStateAppender_Flush(err)

(***************************************************************************)
(* State                                                                   *)
(***************************************************************************)

VARIABLES
    alerts,    \* MemMarker.alerts: fingerprint -> AlertStatus, entries only
    events,    \* every StateAppender call made so far, in call order
    rows,      \* the rows appended to alert_states, in id order
    last,      \* the latest mutating call: arguments, status before, calls made,
               \* and whether it repeats the call before it
    live,      \* fingerprints set and not deleted since
    scenario,  \* positions of alert a1 in the scenarios of the tests
    groups,    \* MemMarker.groups: (routeID, groupKey) -> time interval names
    muteLog,   \* per (routeID, groupKey): the names of the latest SetMuted not
               \* followed by DeleteByGroupKey, else the empty list
    bare,      \* a MemMarker without decorator that is given the same calls
    logs,      \* number of error records the appender has logged
    flushed,   \* number of rows, from the first, that are visible in the table
    run,       \* "running", "closed" after Close, "panicked" after a panic
    procs      \* the calls in progress when calls on the decorator overlap

vars == <<alerts, events, rows, last, live, scenario, groups, muteLog, bare,
          logs, flushed, run, procs>>

\* Count per single state, as a caller of Count(state) sees it.
CountByState(m) ==
    [s \in {AlertStateUnprocessed, AlertStateActive, AlertStateSuppressed} |->
        StateAwareMarker_Count(m, <<s>>)]

\* The exported fields of an AlertStatus (State, SilencedBy, InhibitedBy).
Exported(s) ==
    [State |-> s.State, SilencedBy |-> s.SilencedBy, InhibitedBy |-> s.InhibitedBy]

\* The identity of a mutating call: operation and arguments.
Call(op, alert, version, activeIDs, pendingIDs, ids) ==
    [op |-> op, alert |-> alert, version |-> version, activeIDs |-> activeIDs,
     pendingIDs |-> pendingIDs, ids |-> ids]

NoCall == Call("none", "", 0, <<>>, <<>>, <<>>)

\* last.again when the latest call is not the same call as the one before it;
\* otherwise last.again is the number of StateAppender calls that one made.
NotAgain == 0 - 1

\* Position value of a scenario that the calls on its alert have left.
ScenarioOff == 0 - 1

\* The alert both scenarios are about.
ScenarioAlert == "a1"

\* End-to-end scenario of TestStateAwareMarker_Duplicate: position 0 is the
\* unseen alert, 1 after SetActiveOrSilenced(a1,1,nil,nil), 2 after
\* SetInhibited(a1,a2), 3 after Delete(a1).  Repeating the latest call, or
\* SetActiveOrSilenced(a1,1,nil,nil) while inhibited, keeps the position; any
\* other call on a1 leaves the scenario.
ScenarioSetActive == Call("SetActiveOrSilenced", ScenarioAlert, 1, <<>>, <<>>, <<>>)
ScenarioSetInhibited == Call("SetInhibited", ScenarioAlert, 0, <<>>, <<>>, <<"a2">>)
ScenarioDelete == Call("Delete", ScenarioAlert, 0, <<>>, <<>>, <<>>)

DuplicateNext(pos, c) ==
    IF c.alert # ScenarioAlert THEN pos
    ELSE IF pos = 0 /\ c = ScenarioSetActive THEN 1
    ELSE IF pos = 1 /\ c = ScenarioSetActive THEN 1
    ELSE IF pos = 1 /\ c = ScenarioSetInhibited THEN 2
    ELSE IF pos = 2 /\ c \in {ScenarioSetInhibited, ScenarioSetActive} THEN 2
    ELSE IF pos = 2 /\ c = ScenarioDelete THEN 3
    ELSE IF pos = 3 /\ c = ScenarioDelete THEN 3
    ELSE ScenarioOff

\* Scenario of TestStateAwareMarker_SetInhibited, continued by one repetition:
\* position 1 after SetInhibited(a1,a2), 2 after SetInhibited(a1,a3), 3 after
\* a further SetInhibited(a1,a3).
ScenarioSetInhibitedOther == Call("SetInhibited", ScenarioAlert, 0, <<>>, <<>>, <<"a3">>)

InhibitedNext(pos, c) ==
    IF c.alert # ScenarioAlert THEN pos
    ELSE IF pos = 0 /\ c = ScenarioSetInhibited THEN 1
    ELSE IF pos = 1 /\ c = ScenarioSetInhibitedOther THEN 2
    ELSE IF pos \in {2, 3} /\ c = ScenarioSetInhibitedOther THEN 3
    ELSE ScenarioOff

\* The groups of the mute entries, as (routeID, groupKey): one group, a
\* second group of its route and a group of the same key on a second route;
\* and the time interval name lists passed to SetMuted.
MuteKeys == {<<"route1", "group1">>, <<"route1", "group2">>,
             <<"route2", "group1">>}
TimeIntervalLists == {<<>>, <<"weekends">>}

\* No passthrough or appender result yet.
NoResult == <<"none">>

\* The record of the latest call before any call was made.
NoLast ==
    [call |-> NoCall, pre |-> Exported(UnprocessedStatus),
     preCount |-> CountByState([f \in {} |-> UnprocessedStatus]),
     calls |-> <<>>, again |-> NotAgain,
     fault |-> "none", againFault |-> "none", preRows |-> 0, preLogs |-> 0,
     ret |-> NoResult]

\* No call in progress.
NoProcs == <<>>

Init ==
    /\ alerts = [f \in {} |-> UnprocessedStatus]
    /\ events = <<>>
    /\ rows = <<>>
    /\ last = NoLast
    /\ live = {}
    /\ scenario = [dup |-> 0, inh |-> 0]
    /\ groups = [k \in {} |-> <<>>]
    /\ muteLog = [k \in MuteKeys |-> <<>>]
    /\ bare = [alerts |-> [f \in {} |-> UnprocessedStatus],
               groups |-> [k \in {} |-> <<>>]]
    /\ logs = 0
    /\ flushed = 0
    /\ run = "running"
    /\ procs = NoProcs

\* The same call on the MemMarker without decorator.
BareCall(m, c) ==
    IF c.op = "SetActiveOrSilenced"
    THEN MemMarker_SetActiveOrSilenced(m, c.alert, c.version, c.activeIDs,
                                       c.pendingIDs)
    ELSE IF c.op = "SetInhibited"
    THEN MemMarker_SetInhibited(m, c.alert, c.ids)
    ELSE MemMarker_Delete(m, c.alert)

\* One mutating call c on the decorator with outcome r (marker and
\* StateAppender calls); fault is what goes wrong in the appender calls it
\* makes, cap the number of events the behaviour may reach.  A panic of the
\* appender unwinds through the decorator, after the mutation, and ends the
\* behaviour.
Step(c, r, fault, cap) ==
    /\ run = "running"
    /\ Len(events) + Len(r.calls) <= cap
    /\ r.calls = <<>> => fault = "none"
    /\ alerts' = r.marker
    /\ events' = events \o r.calls
    /\ rows' = SinkApplyAll(rows, r.calls, fault = "none")
    /\ logs' = logs + Cardinality({i \in 1..Len(r.calls) :
                                     SinkEffect(r.calls[i], fault).logs})
    /\ run' = IF \E i \in 1..Len(r.calls) : SinkEffect(r.calls[i], fault).panics
              THEN "panicked" ELSE run
    /\ last' = [call |-> c, pre |-> Exported(MemMarker_Status(alerts, c.alert)),
                preCount |-> CountByState(alerts),
                calls |-> r.calls,
                again |-> IF c = last.call THEN Len(last.calls) ELSE NotAgain,
                fault |-> fault,
                againFault |-> IF c = last.call THEN last.fault ELSE "none",
                preRows |-> Len(rows), preLogs |-> logs,
                ret |-> NoResult]
    /\ scenario' = [dup |-> DuplicateNext(scenario.dup, c),
                    inh |-> InhibitedNext(scenario.inh, c)]
    /\ bare' = [bare EXCEPT !.alerts = BareCall(bare.alerts, c)]
    /\ UNCHANGED <<groups, muteLog, flushed, procs>>

SetActiveOrSilenced(alert, version, activeSilenceIDs, pendingSilenceIDs, fault, cap) ==
    /\ Step(Call("SetActiveOrSilenced", alert, version, activeSilenceIDs,
                 pendingSilenceIDs, <<>>),
            StateAwareMarker_SetActiveOrSilenced(alerts, alert, version,
                 activeSilenceIDs, pendingSilenceIDs),
            fault, cap)
    /\ live' = live \cup {alert}

SetInhibited(alert, alertIDs, fault, cap) ==
    /\ Step(Call("SetInhibited", alert, 0, <<>>, <<>>, alertIDs),
            StateAwareMarker_SetInhibited(alerts, alert, alertIDs),
            fault, cap)
    /\ live' = live \cup {alert}

Delete(alert, fault, cap) ==
    /\ Step(Call("Delete", alert, 0, <<>>, <<>>, <<>>),
            StateAwareMarker_Delete(alerts, alert),
            fault, cap)
    /\ live' = live \ {alert}

\* Serialized calls on the single alert of the scenarios.
Next ==
    \/ \E version \in Versions, activeSilenceIDs \in ActiveSilenceLists,
          pendingSilenceIDs \in PendingSilenceLists :
            SetActiveOrSilenced(ScenarioAlert, version, activeSilenceIDs,
                                pendingSilenceIDs, "none", MaxLog)
    \/ \E alertIDs \in InhibitorLists :
            SetInhibited(ScenarioAlert, alertIDs, "none", MaxLog)
    \/ Delete(ScenarioAlert, "none", MaxLog)

Spec == Init /\ [][Next]_vars

\* Serialized calls on several alerts.
NextMulti ==
    \/ \E alert \in Fingerprints, version \in Versions,
          activeSilenceIDs \in ActiveSilenceLists,
          pendingSilenceIDs \in PendingSilenceLists :
            SetActiveOrSilenced(alert, version, activeSilenceIDs,
                                pendingSilenceIDs, "none", MaxLogMulti)
    \/ \E alert \in Fingerprints, alertIDs \in InhibitorLists :
            SetInhibited(alert, alertIDs, "none", MaxLogMulti)
    \/ \E alert \in Fingerprints : Delete(alert, "none", MaxLogMulti)

SpecMulti == Init /\ [][NextMulti]_vars

(***************************************************************************)
(* Passthrough operations and the mute entries                             *)
(***************************************************************************)

\* Largest number of events in one behaviour of SpecPass.
MaxLogPass == 2

\* The inhibitor lists and pending silence lists of the mutating calls of
\* SpecPass and SpecSink.
InhibitorListsPass == {<<>>, <<"a2">>}
PendingSilenceListsPass == {<<>>}

\* What goes wrong in the appender in SpecPass: nothing, or the write.
SinkFaultsPass == {"none", "AppendRow"}

\* State lists passed to Count.
StateLists == {<<>>, <<AlertStateSuppressed>>,
               <<AlertStateActive, AlertStateSuppressed>>}

\* The identity of a passthrough call: operation and arguments.
PassCall(op, alert, states, routeID, groupKey, names) ==
    [op |-> op, alert |-> alert, states |-> states, routeID |-> routeID,
     groupKey |-> groupKey, names |-> names]

\* The operations that only read the marker.
ReadOps == {"Count", "Status", "Unprocessed", "Active", "Silenced",
            "Inhibited", "Muted"}

\* The passthrough operations that change the mute entries.
MuteOps == {"SetMuted", "DeleteByGroupKey"}

\* A read through the decorator: nothing but the result comes of it.
Observe(c, ret) ==
    /\ run = "running"
    /\ last' = [NoLast EXCEPT !.call = c, !.ret = ret,
                              !.preRows = Len(rows), !.preLogs = logs]
    /\ UNCHANGED <<alerts, events, rows, live, scenario, groups, muteLog, bare,
                   logs, flushed, run, procs>>

Count(states) ==
    Observe(PassCall("Count", "", states, "", "", <<>>),
            StateAwareMarker_Count(alerts, states))

Status(alert) ==
    Observe(PassCall("Status", alert, <<>>, "", "", <<>>),
            StateAwareMarker_Status(alerts, alert))

Unprocessed(alert) ==
    Observe(PassCall("Unprocessed", alert, <<>>, "", "", <<>>),
            StateAwareMarker_Unprocessed(alerts, alert))

Active(alert) ==
    Observe(PassCall("Active", alert, <<>>, "", "", <<>>),
            StateAwareMarker_Active(alerts, alert))

Silenced(alert) ==
    Observe(PassCall("Silenced", alert, <<>>, "", "", <<>>),
            StateAwareMarker_Silenced(alerts, alert))

Inhibited(alert) ==
    Observe(PassCall("Inhibited", alert, <<>>, "", "", <<>>),
            StateAwareMarker_Inhibited(alerts, alert))

Muted(routeID, groupKey) ==
    Observe(PassCall("Muted", "", <<>>, routeID, groupKey, <<>>),
            StateAwareMarker_Muted(groups, routeID, groupKey))

\* A passthrough call c that leaves the mute entries g behind; h is what the
\* latest SetMuted of each key asked for.
Mute(c, g, bg, h) ==
    /\ run = "running"
    /\ groups' = g
    /\ bare' = [bare EXCEPT !.groups = bg]
    /\ muteLog' = h
    /\ last' = [NoLast EXCEPT !.call = c,
                              !.preRows = Len(rows), !.preLogs = logs]
    /\ UNCHANGED <<alerts, events, rows, live, scenario, logs, flushed, run,
                   procs>>

SetMuted(routeID, groupKey, timeIntervalNames) ==
    Mute(PassCall("SetMuted", "", <<>>, routeID, groupKey, timeIntervalNames),
         StateAwareMarker_SetMuted(groups, routeID, groupKey, timeIntervalNames),
         MemMarker_SetMuted(bare.groups, routeID, groupKey, timeIntervalNames),
         [muteLog EXCEPT ![<<routeID, groupKey>>] = timeIntervalNames])

DeleteByGroupKey(routeID, groupKey) ==
    Mute(PassCall("DeleteByGroupKey", "", <<>>, routeID, groupKey, <<>>),
         StateAwareMarker_DeleteByGroupKey(groups, routeID, groupKey),
         MemMarker_DeleteByGroupKey(bare.groups, routeID, groupKey),
         [muteLog EXCEPT ![<<routeID, groupKey>>] = <<>>])

\* Serialized calls of every operation of the decorator: mutating calls on
\* one alert, with or without a failing write, and the passthroughs.
NextPass ==
    \/ \E version \in Versions, activeSilenceIDs \in ActiveSilenceLists,
          pendingSilenceIDs \in PendingSilenceListsPass, fault \in SinkFaultsPass :
            SetActiveOrSilenced(ScenarioAlert, version, activeSilenceIDs,
                                pendingSilenceIDs, fault, MaxLogPass)
    \/ \E alertIDs \in InhibitorListsPass, fault \in SinkFaultsPass :
            SetInhibited(ScenarioAlert, alertIDs, fault, MaxLogPass)
    \/ \E fault \in SinkFaultsPass : Delete(ScenarioAlert, fault, MaxLogPass)
    \/ \E states \in StateLists : Count(states)
    \/ Status(ScenarioAlert)
    \/ Unprocessed(ScenarioAlert)
    \/ Active(ScenarioAlert)
    \/ Silenced(ScenarioAlert)
    \/ Inhibited(ScenarioAlert)
    \/ \E k \in MuteKeys : Muted(k[1], k[2])
    \/ \E k \in MuteKeys, timeIntervalNames \in TimeIntervalLists :
            SetMuted(k[1], k[2], timeIntervalNames)
    \/ \E k \in MuteKeys : DeleteByGroupKey(k[1], k[2])

SpecPass == Init /\ [][NextPass]_vars

(***************************************************************************)
(* The appender: failing calls, Flush and Close                            *)
(***************************************************************************)

\* Largest number of events in one behaviour of SpecSink.
MaxLogSink == 2

\* The identity of a call of Flush or Close; err is what the duckdb appender
\* returned inside it.
SinkCall(op, err) == [op |-> op, err |-> err]

\* StateAwareMarker.Flush.  A successful flush of the duckdb appender makes
\* every row appended so far visible; after a failed one any number of the
\* buffered rows may have become visible.
Flush(err) ==
    /\ run = "running"
    /\ IF err = NilError
       THEN flushed' = Len(rows)
       ELSE flushed' \in flushed..Len(rows)
    /\ last' = [NoLast EXCEPT !.call = SinkCall("Flush", err),
                              !.ret = StateAwareMarker_Flush(err),
                              !.preRows = Len(rows), !.preLogs = logs]
    /\ UNCHANGED <<alerts, events, rows, live, scenario, groups, muteLog, bare,
                   logs, run, procs>>

\* DuckDBStateAppender.Close, after which the appender is not used again.
\* Whether closing makes buffered rows visible is left to the duckdb appender.
Close(err) ==
    /\ run = "running"
    /\ flushed' \in flushed..Len(rows)
    /\ run' = "closed"
    /\ last' = [NoLast EXCEPT !.call = SinkCall("Close", err),
                              !.ret = DuckDBStateAppender_Close(err),
                              !.preRows = Len(rows), !.preLogs = logs]
    /\ UNCHANGED <<alerts, events, rows, live, scenario, groups, muteLog, bare,
                   logs, procs>>

\* Serialized mutating calls on one alert with every fault of the appender,
\* and Flush and Close.
NextSink ==
    \/ \E version \in Versions, activeSilenceIDs \in ActiveSilenceLists,
          pendingSilenceIDs \in PendingSilenceListsPass, fault \in SinkFaults :
            SetActiveOrSilenced(ScenarioAlert, version, activeSilenceIDs,
                                pendingSilenceIDs, fault, MaxLogSink)
    \/ \E alertIDs \in InhibitorListsPass, fault \in SinkFaults :
            SetInhibited(ScenarioAlert, alertIDs, fault, MaxLogSink)
    \/ \E fault \in SinkFaults : Delete(ScenarioAlert, fault, MaxLogSink)
    \/ \E err \in DbErrors : Flush(err)
    \/ \E err \in DbErrors : Close(err)

SpecSink == Init /\ [][NextSink]_vars

(***************************************************************************)
(* Overlapping calls: each mutating operation as the four steps of its     *)
(* code (Status, the delegated mutation, Silenced / Inhibited, the         *)
(* StateAppender call), every step atomic in the marker                    *)
(***************************************************************************)

\* Largest number of calls begun in one behaviour of SpecConc.
MaxCalls == 3

\* The goroutines that call the decorator.
Callers == {"c1", "c2"}

\* The calls they make, all on one alert.
ConcCalls ==
    {Call("SetActiveOrSilenced", ScenarioAlert, 1, a, <<>>, <<>>) :
        a \in ActiveSilenceLists}
    \cup {Call("SetInhibited", ScenarioAlert, 0, <<>>, <<>>, ids) :
            ids \in InhibitorListsPass}
    \cup {ScenarioDelete}

\* A caller between calls.
Idle == [pc |-> "idle", call |-> NoCall, currStatus |-> UnprocessedStatus,
         calls |-> <<>>, no |-> 0]

\* procs when calls may overlap: the callers, the number of calls begun,
\* whether a call began while another was in progress, and for every event
\* the number of the call that appended it.
StartProcs ==
    [callers |-> [p \in Callers |-> Idle], begun |-> 0, overlapped |-> FALSE,
     by |-> <<>>]

InitConc ==
    /\ alerts = [f \in {} |-> UnprocessedStatus]
    /\ events = <<>>
    /\ rows = <<>>
    /\ last = NoLast
    /\ live = {}
    /\ scenario = [dup |-> 0, inh |-> 0]
    /\ groups = [k \in {} |-> <<>>]
    /\ muteLog = [k \in MuteKeys |-> <<>>]
    /\ bare = [alerts |-> [f \in {} |-> UnprocessedStatus],
               groups |-> [k \in {} |-> <<>>]]
    /\ logs = 0
    /\ flushed = 0
    /\ run = "running"
    /\ procs = StartProcs

\* The StateAppender calls call c decides on, from the status currStatus it
\* read first and the marker m it finds after its mutation.
Decide(c, currStatus, m) ==
    IF c.op = "SetActiveOrSilenced"
    THEN SetActiveOrSilenced_appends(c.alert, currStatus,
                                     MemMarker_Silenced(m, c.alert).silenced)
    ELSE IF c.op = "SetInhibited"
    THEN SetInhibited_appends(c.alert, currStatus, c.ids,
                              MemMarker_Inhibited(m, c.alert).by,
                              MemMarker_Inhibited(m, c.alert).inhibited)
    ELSE Delete_appends(c.alert, currStatus)

\* currStatus := s.marker.Status(alert)
Begin(p, c) ==
    /\ run = "running"
    /\ procs.callers[p].pc = "idle"
    /\ procs.begun < MaxCalls
    /\ procs' = [procs EXCEPT
                   !.callers[p] = [pc |-> "read", call |-> c,
                                   currStatus |-> MemMarker_Status(alerts, c.alert),
                                   calls |-> <<>>, no |-> procs.begun + 1],
                   !.begun = procs.begun + 1,
                   !.overlapped = procs.overlapped \/
                       \E q \in Callers \ {p} : procs.callers[q].pc # "idle"]
    /\ UNCHANGED <<alerts, events, rows, last, live, scenario, groups, muteLog,
                   bare, logs, flushed, run>>

\* s.marker.SetActiveOrSilenced / SetInhibited / Delete
Mutate(p) ==
    /\ procs.callers[p].pc = "read"
    /\ alerts' = BareCall(alerts, procs.callers[p].call)
    /\ bare' = [bare EXCEPT !.alerts = BareCall(bare.alerts, procs.callers[p].call)]
    /\ procs' = [procs EXCEPT !.callers[p].pc = "mutated"]
    /\ UNCHANGED <<events, rows, last, live, scenario, groups, muteLog, logs,
                   flushed, run>>

\* s.marker.Silenced / s.marker.Inhibited and the comparisons with currStatus
Recheck(p) ==
    /\ procs.callers[p].pc = "mutated"
    /\ procs' = [procs EXCEPT
                   !.callers[p].pc = "checked",
                   !.callers[p].calls =
                       Decide(procs.callers[p].call,
                              procs.callers[p].currStatus, alerts)]
    /\ UNCHANGED <<alerts, events, rows, last, live, scenario, groups, muteLog,
                   bare, logs, flushed, run>>

\* s.appender.Append / AppendInhibited, if any, and the return
Return(p) ==
    /\ procs.callers[p].pc = "checked"
    /\ events' = events \o procs.callers[p].calls
    /\ rows' = SinkApplyAll(rows, procs.callers[p].calls, TRUE)
    /\ procs' = [procs EXCEPT
                   !.callers[p] = Idle,
                   !.by = procs.by \o [i \in 1..Len(procs.callers[p].calls) |->
                                          procs.callers[p].no]]
    /\ UNCHANGED <<alerts, last, live, scenario, groups, muteLog, bare, logs,
                   flushed, run>>

NextConc ==
    \/ \E p \in Callers, c \in ConcCalls : Begin(p, c)
    \/ \E p \in Callers : Mutate(p)
    \/ \E p \in Callers : Recheck(p)
    \/ \E p \in Callers : Return(p)

SpecConc == InitConc /\ [][NextConc]_vars

(***************************************************************************)
(* Properties                                                              *)
(***************************************************************************)

\* The latest call was a mutating call (every state but the initial one).
Called == last.call.op # "none"

\* Exported status of the latest call's alert after the call.
Post == Exported(StateAwareMarker_Status(alerts, last.call.alert))

\* The StateAppender calls made so far for one alert, in call order.
EventsOf(alert) == SelectSeq(events, LAMBDA e : e.fingerprint = alert)

\* Rows i < j are consecutive rows of one alert.
ConsecutiveRows(i, j) ==
    /\ i < j
    /\ rows[i].alert = rows[j].alert
    /\ \A k \in (i + 1)..(j - 1) : rows[k].alert # rows[i].alert

\* C1: for every fingerprint, no two consecutive persisted rows carry the same
\* (state, suppressed_by, suppressed_reason) triple.
C1_NoRepeatedRow ==
    \A i, j \in 1..Len(rows) :
        ConsecutiveRows(i, j) =>
            <<rows[i].state, rows[i].suppressed_by, rows[i].suppressed_reason>>
                # <<rows[j].state, rows[j].suppressed_by, rows[j].suppressed_reason>>

\* C2: the same mutating call issued twice in a row appends at most one event
\* across both calls.
C2_SameCallTwiceAppendsAtMostOnce ==
    last.again # NotAgain => last.again + Len(last.calls) <= 1

\* A call that appended one event was repeated and the repetition appended none.
C2_Witness ==
    /\ last.again = 1
    /\ last.calls = <<>>
    /\ last.call.op = "SetInhibited"

\* The state a StateAppender call records for the status after a call (Delete
\* leaves no entry behind and records the state deleted).
RecordsNewState(c) ==
    c.state = IF last.call.op = "Delete" THEN AlertStateDeleted ELSE Post.State

\* C3: every mutating call that changes the State reported by Status appends
\* exactly one event, and that event records the new State.
C3_StateChangeAppendsOnce ==
    (Called /\ last.pre.State # Post.State) =>
        (Len(last.calls) = 1 /\ RecordsNewState(last.calls[1]))

\* C4: a mutating call that leaves State and InhibitedBy of its alert as they
\* were appends no event.
C4_UnchangedStatusAppendsNothing ==
    (Called /\ last.pre.State = Post.State
            /\ last.pre.InhibitedBy = Post.InhibitedBy) =>
        last.calls = <<>>

\* SetActiveOrSilenced silenced an inhibited alert: State and InhibitedBy are
\* as before and nothing was appended.
C4_Witness ==
    /\ last.call.op = "SetActiveOrSilenced"
    /\ last.call.activeIDs # <<>>
    /\ last.pre.State = AlertStateSuppressed
    /\ last.pre.SilencedBy = <<>>
    /\ last.pre.InhibitedBy = Post.InhibitedBy
    /\ Post.State = AlertStateSuppressed
    /\ last.calls = <<>>

\* C5: SetInhibited with a non-empty list on an already suppressed alert
\* issues exactly one AppendInhibited with the marker's new inhibitor list when
\* the list differs from the stored InhibitedBy and nothing when it is the
\* same; SetInhibited(a1,a2), SetInhibited(a1,a3) on an unseen a1 issues
\* AppendInhibited twice and a further SetInhibited(a1,a3) issues none.
C5_InhibitorChangeAppendsOnce ==
    /\ (/\ last.call.op = "SetInhibited"
        /\ last.call.ids # <<>>
        /\ last.pre.State = AlertStateSuppressed) =>
           IF last.call.ids # last.pre.InhibitedBy
           THEN last.calls = <<AppendInhibitedCall(last.call.alert,
                                   MemMarker_Inhibited(alerts, last.call.alert).by)>>
           ELSE last.calls = <<>>
    /\ scenario.inh = 1 =>
           EventsOf(ScenarioAlert) = <<AppendInhibitedCall(ScenarioAlert, <<"a2">>)>>
    /\ scenario.inh \in {2, 3} =>
           EventsOf(ScenarioAlert) = <<AppendInhibitedCall(ScenarioAlert, <<"a2">>),
                                       AppendInhibitedCall(ScenarioAlert, <<"a3">>)>>

\* SetInhibited(a1,a2), SetInhibited(a1,a3), SetInhibited(a1,a3) has run.
C5_Witness ==
    /\ scenario.inh = 3
    /\ last.call = ScenarioSetInhibitedOther
    /\ last.pre.InhibitedBy = <<"a3">>
    /\ last.calls = <<>>

C7_DeleteAppendsDeletedOnce ==
    last.call.op = "Delete" =>
        /\ last.pre.State = AlertStateUnprocessed => last.calls = <<>>
        /\ last.pre.State \in {AlertStateActive, AlertStateSuppressed} =>
               last.calls = <<AppendCall(last.call.alert, AlertStateDeleted)>>
        /\ Post.State = AlertStateUnprocessed

\* A suppressed alert was deleted, and Delete was then called again.
C7_Witness ==
    /\ last.call.op = "Delete"
    /\ last.again = 1
    /\ last.pre.State = AlertStateUnprocessed
    /\ last.calls = <<>>

\* C8: SetInhibited with an empty inhibitor list appends exactly one
\* Append(Active) for an unseen fingerprint and nothing for one that is
\* suppressed by a silence (it stays suppressed) or already active.
C8_NoInhibitionAppendsActiveOnlyWhenUnseen ==
    (last.call.op = "SetInhibited" /\ last.call.ids = <<>>) =>
        /\ last.pre.State = AlertStateUnprocessed =>
               last.calls = <<AppendCall(last.call.alert, AlertStateActive)>>
        /\ (last.pre.State = AlertStateSuppressed /\ last.pre.SilencedBy # <<>>) =>
               (last.calls = <<>> /\ Post.State = AlertStateSuppressed)
        /\ last.pre.State = AlertStateActive => last.calls = <<>>

\* SetInhibited with no inhibitor was called on a silenced alert.
C8_Witness ==
    /\ last.call.op = "SetInhibited"
    /\ last.call.ids = <<>>
    /\ last.pre.State = AlertStateSuppressed
    /\ last.pre.SilencedBy # <<>>
    /\ last.pre.InhibitedBy = <<>>
    /\ last.calls = <<>>

\* C9: from an unseen a1, SetActiveOrSilenced(a1,1,nil,nil), SetInhibited(a1,a2),
\* Delete(a1) produce exactly Append(a1,Active), AppendInhibited(a1,[a2]),
\* Append(a1,Deleted); repeating any of the calls right after it, or calling
\* SetActiveOrSilenced(a1,1,nil,nil) while a1 is inhibited, appends nothing.
C9_EndToEndScenario ==
    /\ scenario.dup = 0 => EventsOf(ScenarioAlert) = <<>>
    /\ scenario.dup = 1 =>
           EventsOf(ScenarioAlert) = <<AppendCall(ScenarioAlert, AlertStateActive)>>
    /\ scenario.dup = 2 =>
           EventsOf(ScenarioAlert) = <<AppendCall(ScenarioAlert, AlertStateActive),
                                       AppendInhibitedCall(ScenarioAlert, <<"a2">>)>>
    /\ scenario.dup = 3 =>
           EventsOf(ScenarioAlert) = <<AppendCall(ScenarioAlert, AlertStateActive),
                                       AppendInhibitedCall(ScenarioAlert, <<"a2">>),
                                       AppendCall(ScenarioAlert, AlertStateDeleted)>>

\* The scenario has run to its end and Delete(a1) was repeated.
C9_Witness ==
    /\ scenario.dup = 3
    /\ last.call = ScenarioDelete
    /\ last.again = 1

\* C10: a fingerprint set with an active silence is counted by
\* Count(Suppressed); a later SetActiveOrSilenced without silences on it, when
\* it is not inhibited, makes it counted by Count(Active) and issues exactly one
\* Append(Active); and Count(Suppressed) + Count(Active) + Count(Unprocessed)
\* is the number of fingerprints set and not deleted.
C10_CountsFollowTransitions ==
    /\ (last.call.op = "SetActiveOrSilenced" /\ last.call.activeIDs # <<>>) =>
           /\ Post.State = AlertStateSuppressed
           /\ StateAwareMarker_Count(alerts, <<AlertStateSuppressed>>) =
                  last.preCount[AlertStateSuppressed]
                      + (IF last.pre.State = AlertStateSuppressed THEN 0 ELSE 1)
    /\ (/\ last.call.op = "SetActiveOrSilenced"
        /\ last.call.activeIDs = <<>>
        /\ last.pre.State = AlertStateSuppressed
        /\ last.pre.InhibitedBy = <<>>) =>
           /\ Post.State = AlertStateActive
           /\ StateAwareMarker_Count(alerts, <<AlertStateActive>>) =
                  last.preCount[AlertStateActive] + 1
           /\ StateAwareMarker_Count(alerts, <<AlertStateSuppressed>>) =
                  last.preCount[AlertStateSuppressed] - 1
           /\ last.calls = <<AppendCall(last.call.alert, AlertStateActive)>>
    /\ StateAwareMarker_Count(alerts, <<AlertStateSuppressed>>)
         + StateAwareMarker_Count(alerts, <<AlertStateActive>>)
         + StateAwareMarker_Count(alerts, <<AlertStateUnprocessed>>)
           = Cardinality(live)

\* A silenced, not inhibited alert was set without silences and is now the
\* one alert counted as active.
C10_Witness ==
    /\ last.call.op = "SetActiveOrSilenced"
    /\ last.call.activeIDs = <<>>
    /\ last.pre.State = AlertStateSuppressed
    /\ last.pre.SilencedBy # <<>>
    /\ last.pre.InhibitedBy = <<>>
    /\ last.preCount[AlertStateSuppressed] = 1
    /\ StateAwareMarker_Count(alerts, <<AlertStateActive>>) = 1
    /\ Cardinality(live) = 1

\* The row a StateAppender call is to leave in alert_states.
ExpectedRow(c) ==
    IF c.op = "AppendInhibited"
    THEN Row(c.fingerprint, AlertStateSuppressed, Head(c.inhibitedBy), "inhibited")
    ELSE IF c.state = AlertStateSuppressed
         THEN Row(c.fingerprint, AlertStateSuppressed, Null, "silenced")
         ELSE Row(c.fingerprint, c.state, Null, Null)

\* C13: each sink call buffers exactly one row: Append(f, Suppressed) gives
\* (f, suppressed, null, silenced), Append(f, s) for another state s gives
\* (f, s, null, null), AppendInhibited(f, ids) gives (f, suppressed, ids[0],
\* inhibited) whatever follows the first inhibitor.
C13_OneRowPerSinkCall ==
    /\ Len(rows) = Len(events)
    /\ \A i \in 1..Len(events) : rows[i] = ExpectedRow(events[i])

\* Rows of all three shapes were buffered, one from an AppendInhibited with two
\* inhibitors.
C13_Witness ==
    /\ \E i \in 1..Len(events) :
          events[i].op = "AppendInhibited" /\ Len(events[i].inhibitedBy) = 2
                                           /\ rows[i].suppressed_by = "a2"
    /\ \E i \in 1..Len(events) : rows[i].suppressed_reason = "silenced"
    /\ \E i \in 1..Len(events) : rows[i].state = AlertStateDeleted

\* C20: SetActiveOrSilenced appends nothing when it silences an alert that is
\* suppressed by inhibition, and nothing when it finds no active silence on an
\* alert suppressed with a non-empty InhibitedBy, which stays suppressed; it
\* issues Append(Active) exactly when the State after it is Active and the
\* State before it was not.
C20_SetActiveOrSilencedKeepsSuppressionCause ==
    last.call.op = "SetActiveOrSilenced" =>
        /\ (/\ last.pre.State = AlertStateSuppressed
            /\ last.pre.InhibitedBy # <<>>
            /\ last.call.activeIDs # <<>>) => last.calls = <<>>
        /\ (/\ last.pre.State = AlertStateSuppressed
            /\ last.pre.InhibitedBy # <<>>
            /\ last.call.activeIDs = <<>>) =>
               (last.calls = <<>> /\ Post.State = AlertStateSuppressed)
        /\ (AppendCall(last.call.alert, AlertStateActive) \in {last.calls[i] : i \in 1..Len(last.calls)})
              <=> (Post.State = AlertStateActive /\ last.pre.State # AlertStateActive)

\* The silence of an alert that is both silenced and inhibited was removed by
\* SetActiveOrSilenced: still suppressed, nothing appended.
C20_Witness ==
    /\ last.call.op = "SetActiveOrSilenced"
    /\ last.call.activeIDs = <<>>
    /\ last.pre.State = AlertStateSuppressed
    /\ last.pre.SilencedBy # <<>>
    /\ last.pre.InhibitedBy # <<>>
    /\ Post.State = AlertStateSuppressed
    /\ last.calls = <<>>

\* What the authority with alerts m and mute entries g returns for the read c.
AuthorityResult(m, g, c) ==
    CASE c.op = "Count" -> MemMarker_Count(m, c.states)
      [] c.op = "Status" -> MemMarker_Status(m, c.alert)
      [] c.op = "Unprocessed" -> MemMarker_Unprocessed(m, c.alert)
      [] c.op = "Active" -> MemMarker_Active(m, c.alert)
      [] c.op = "Silenced" -> MemMarker_Silenced(m, c.alert)
      [] c.op = "Inhibited" -> MemMarker_Inhibited(m, c.alert)
      [] c.op = "Muted" -> MemMarker_Muted(g, c.routeID, c.groupKey)

\* C11: Count, Status, Unprocessed, Active, Silenced, Inhibited, Muted,
\* SetMuted and DeleteByGroupKey append no event and return what the authority
\* returns; the reads leave every alert status and mute entry as it was;
\* SetMuted and DeleteByGroupKey leave every alert status as it was and do to
\* the mute entries what the authority does.
C11_PassthroughsOnlyForward ==
    [][last'.call.op \in ReadOps \cup MuteOps =>
         /\ events' = events
         /\ rows' = rows
         /\ alerts' = alerts
         /\ last'.call.op \in ReadOps =>
               /\ groups' = groups
               /\ last'.ret = AuthorityResult(alerts, groups, last'.call)
         /\ last'.call.op = "SetMuted" =>
               groups' = MemMarker_SetMuted(groups, last'.call.routeID,
                                            last'.call.groupKey, last'.call.names)
         /\ last'.call.op = "DeleteByGroupKey" =>
               groups' = MemMarker_DeleteByGroupKey(groups, last'.call.routeID,
                                                    last'.call.groupKey)]_vars

\* Active was asked of a suppressed alert with one event appended and a group
\* muted, and answered no.
C11_Witness ==
    /\ last.call.op = "Active"
    /\ last.ret = FALSE
    /\ MemMarker_Status(alerts, ScenarioAlert).State = AlertStateSuppressed
    /\ Len(events) = 1
    /\ \E k \in MuteKeys : MemMarker_Muted(groups, k[1], k[2]).muted

\* C12: Muted(routeID, groupKey) returns the names and true exactly when the
\* latest SetMuted for that key gave a non-empty list and no DeleteByGroupKey
\* for that key followed, and the empty list and false otherwise; calls for
\* another route or another group key do not change the answer.
C12_MutedFollowsLatestSetMuted ==
    /\ \A k \in MuteKeys :
          StateAwareMarker_Muted(groups, k[1], k[2]) =
              [names |-> muteLog[k], muted |-> muteLog[k] # <<>>]
    /\ last.call.op = "Muted" =>
          last.ret = [names |-> muteLog[<<last.call.routeID, last.call.groupKey>>],
                      muted |-> muteLog[<<last.call.routeID, last.call.groupKey>>] # <<>>]

\* Muted reported group1 of route1 muted, while group2 of route1 has an entry
\* without names and group1 of route2 has no entry.
C12_Witness ==
    /\ last.call.op = "Muted"
    /\ last.call.routeID = "route1" /\ last.call.groupKey = "group1"
    /\ last.ret = [names |-> <<"weekends">>, muted |-> TRUE]
    /\ <<"route1", "group2">> \in DOMAIN groups
    /\ groups[<<"route1", "group2">>] = <<>>
    /\ <<"route2", "group1">> \notin DOMAIN groups

\* C19: the decorator delegates every mutation unchanged: alert statuses and
\* mute entries behind the decorator equal those of a MemMarker given the same
\* calls, and so does every result read through the decorator, whether the
\* writes of the appender succeed or fail.
C19_DecoratorDelegatesUnchanged ==
    /\ alerts = bare.alerts
    /\ groups = bare.groups
    /\ last.call.op \in ReadOps =>
          last.ret = AuthorityResult(bare.alerts, bare.groups, last.call)

\* A Delete whose write failed removed a suppressed alert, behind the
\* decorator as in the bare MemMarker, with a group muted.
C19_Witness ==
    /\ last.call.op = "Delete"
    /\ last.fault = "AppendRow"
    /\ last.pre.State = AlertStateSuppressed
    /\ ScenarioAlert \notin DOMAIN bare.alerts
    /\ ScenarioAlert \notin DOMAIN alerts
    /\ rows = <<>>
    /\ \E k \in MuteKeys : MemMarker_Muted(bare.groups, k[1], k[2]).muted

\* The status the authority holds for the alert of a StateAppender call once
\* the transition the call records has taken place.
Recorded(c) ==
    IF c.op = "AppendInhibited"
    THEN /\ Post.State = AlertStateSuppressed
         /\ Post.InhibitedBy = c.inhibitedBy
    ELSE IF c.state = AlertStateDeleted
         THEN Post.State = AlertStateUnprocessed
         ELSE Post.State = c.state

\* C14: a failed write during Append or AppendInhibited is neither surfaced
\* nor retried: the call completes, the authority holds the status it holds
\* after a successful write, the row is not in the log, and the same call
\* issued again at once appends nothing.
C14_WriteFailureNeitherSurfacedNorRetried ==
    /\ last.fault = "AppendRow" =>
          /\ run = "running"
          /\ Len(rows) = last.preRows
          /\ alerts = bare.alerts
          /\ \A i \in 1..Len(last.calls) : Recorded(last.calls[i])
    /\ last.againFault = "AppendRow" => last.calls = <<>>

\* SetInhibited was repeated right after its write had failed: the alert is
\* inhibited, nothing more was appended and the log has no row.
C14_Witness ==
    /\ last.call.op = "SetInhibited"
    /\ last.againFault = "AppendRow"
    /\ last.again = 1
    /\ last.calls = <<>>
    /\ Post.State = AlertStateSuppressed
    /\ rows = <<>>

\* C15: a failure to generate the row id during Append or AppendInhibited is
\* logged and not propagated: the call returns without panic, no row is
\* written, the authority holds the status of the call.
C15_IdFailureLoggedNotPropagated ==
    last.fault \in {"NewV7", "MarshalBinary"} =>
        /\ run = "running"
        /\ logs = last.preLogs + 1
        /\ Len(rows) = last.preRows
        /\ alerts = bare.alerts

\* C16: a Flush that returns no error has made every row appended before it
\* visible, in append order (the visible rows are the first flushed rows); a
\* Flush that fails in the appender returns an error from the decorator;
\* before a Flush, and after a failed one, rows may be buffered only.
C16_FlushMakesRowsVisible ==
    /\ flushed <= Len(rows)
    /\ last.call.op = "Flush" =>
          IF last.call.err = NilError
          THEN last.ret = NilError /\ flushed = Len(rows)
          ELSE last.ret # NilError

\* A Flush without error made a row visible that had been buffered, after a
\* write had failed.
C16_Witness ==
    /\ last.call.op = "Flush"
    /\ last.ret = NilError
    /\ flushed = 1
    /\ Len(rows) = 1
    /\ Len(events) = 2

\* The error err wraps the error cause behind a message of its own.
Wraps(err, cause) ==
    /\ Len(err) > Len(cause)
    /\ SubSeq(err, Len(err) - Len(cause) + 1, Len(err)) = cause

\* C17: Flush and Close of the appender return nil on success and, on failure,
\* an error that wraps the underlying error behind a message, never the
\* underlying error itself.
C17_FlushAndCloseWrapErrors ==
    last.call.op \in {"Flush", "Close"} =>
        IF last.call.err = NilError
        THEN last.ret = NilError
        ELSE /\ last.ret # NilError
             /\ last.ret # last.call.err
             /\ Wraps(last.ret, last.call.err)

\* Events i and i+1 are the same StateAppender call, made by two calls of
\* which one began right after the other.
AppendedTwice(i) ==
    /\ events[i] = events[i + 1]
    /\ procs.by[i + 1] - procs.by[i] \in {1, 0 - 1}

C22_AppendInhibitedListIsAuthoritys ==
    /\ run # "panicked"
    /\ \A i \in 1..Len(events) :
          events[i].op = "AppendInhibited" => Len(events[i].inhibitedBy) > 0
    /\ \A i \in 1..Len(last.calls) :
          last.calls[i].op = "AppendInhibited" =>
              /\ Len(last.calls[i].inhibitedBy) > 0
              /\ last.calls[i].inhibitedBy =
                     StateAwareMarker_Inhibited(alerts, last.call.alert).by

\* SetInhibited replaced the one inhibitor of a silenced alert by two and
\* AppendInhibited was called with both.
C22_Witness ==
    /\ last.call.op = "SetInhibited"
    /\ last.pre.SilencedBy # <<>>
    /\ last.pre.InhibitedBy = <<"a3">>
    /\ last.calls = <<AppendInhibitedCall(ScenarioAlert, <<"a2", "a3">>)>>
    /\ Post.InhibitedBy = <<"a2", "a3">>

\* The state recorded by event i of the sequence es.
StateAt(es, i) == es[i].state

\* C23: in the events of one fingerprint, with calls serialized and every
\* write succeeding, a Deleted event is never the first and never follows a
\* Deleted event at once: the event before it is Active or Suppressed, and so
\* is the event after it, if any.
C23_DeletedBetweenLiveEvents ==
    \A f \in Fingerprints :
        LET es == EventsOf(f)
        IN  \A i \in 1..Len(es) :
                StateAt(es, i) = AlertStateDeleted =>
                    /\ i > 1
                    /\ StateAt(es, i - 1) \in {AlertStateActive, AlertStateSuppressed}
                    /\ i < Len(es) =>
                          StateAt(es, i + 1) \in {AlertStateActive, AlertStateSuppressed}

\* The alert was activated, deleted, inhibited and deleted again.
C23_Witness ==
    /\ Len(events) = 4
    /\ events[1] = AppendCall(ScenarioAlert, AlertStateActive)
    /\ events[2] = AppendCall(ScenarioAlert, AlertStateDeleted)
    /\ events[3].op = "AppendInhibited"
    /\ events[4] = AppendCall(ScenarioAlert, AlertStateDeleted)
    /\ rows[4].state = AlertStateDeleted

\* The marker m without the entries of the fingerprints other than f.
Restrict(m, f) == [g \in (DOMAIN m) \cap {f} |-> m[g]]

\* The StateAppender calls the decorator makes for the mutating call c on the
\* marker m.
CallsOf(m, c) ==
    IF c.op = "SetActiveOrSilenced"
    THEN StateAwareMarker_SetActiveOrSilenced(m, c.alert, c.version, c.activeIDs,
                                              c.pendingIDs).calls
    ELSE IF c.op = "SetInhibited"
    THEN StateAwareMarker_SetInhibited(m, c.alert, c.ids).calls
    ELSE StateAwareMarker_Delete(m, c.alert).calls

\* C21: a mutating call on fingerprint f appends only events of f, leaves the
\* status of every other fingerprint as it was, and appends what it appends
\* on a marker that knows f alone: the prior status of f and the arguments
\* decide, not the other fingerprints or the events so far.
C21_AppendsIndependentPerFingerprint ==
    [][LET c == last'.call
       IN  /\ events' = events \o last'.calls
           /\ \A i \in 1..Len(last'.calls) : last'.calls[i].fingerprint = c.alert
           /\ \A g \in Fingerprints \ {c.alert} :
                 /\ (g \in DOMAIN alerts') = (g \in DOMAIN alerts)
                 /\ MemMarker_Status(alerts', g) = MemMarker_Status(alerts, g)
           /\ last'.calls = CallsOf(Restrict(alerts, c.alert), c)]_vars

\* SetInhibited on a1 appended the event of a1 while a2 was suppressed by
\* itself and stayed so.
C21_Witness ==
    /\ last.call = ScenarioSetInhibited
    /\ last.calls = <<AppendInhibitedCall("a1", <<"a2">>)>>
    /\ Len(events) = 2
    /\ events[1].fingerprint = "a2"
    /\ MemMarker_Status(alerts, "a2").InhibitedBy = <<"a2">>

====
